---- MODULE Spec2Model ----
(***************************************************************************)
(* A model of web_crawl.py: the depth-bounded, name-guided recursive       *)
(* crawler crawl_links together with the pure functions it is built from   *)
(* (text extraction, link filtering, title derivation) and the batched     *)
(* fetch-and-process call scrape_text_and_links.                           *)
(*                                                                         *)
(* Python strings are TLA+ strings, used as sequences of characters        *)
(* (Len, SubSeq, \o).  A parsed HTML document is the record of what        *)
(* BeautifulSoup finds in it: the heading/paragraph elements in document   *)
(* order, the anchors with an href, and the PERSON entities spaCy reports  *)
(* for its flattened text.                                                 *)
(***************************************************************************)
EXTENDS Integers, Sequences, FiniteSets, TLC

VARIABLES
    stack,            \* call stack of crawl_links frames, innermost first
    visited,          \* the visited set shared by one top-level invocation
    links_remaining,  \* value of the module-level semaphore links_remaining
    files,            \* output directory: file name -> text written
    web,              \* what the fetcher returns for each URL (fixed once seen)
    seed,             \* starting_url of the top-level call
    max_depth,        \* max_depth of the top-level call
    run,              \* number of the current top-level invocation
    status,           \* "running" | "returned" | "raised" for the current run
    fetchLog,         \* history: fetches of the current run, in order
    saveLog,          \* history: save_text_to_file calls of the current run
    savedUrls,        \* history: URLs whose text was written to a file
    seedText,         \* history: run -> text passed to save for the seed
    startCount,       \* history: links_remaining when the current run began
    skips,            \* history: calls of the current run the guard returned from
    edgeLinks,        \* history: links found on pages at depth max_depth
    error,            \* history: the exception that ended the current run
    dropped,          \* history: links left to crawl when the run was aborted
    batch,            \* state of one scrape_text_and_links(urls) call
    filt,             \* input and result of one extract_and_filter_links call
    doc               \* input and result of one text extraction

vars == <<stack, visited, links_remaining, files, web, seed, max_depth, run,
          status, fetchLog, saveLog, savedUrls, seedText, startCount,
          skips, edgeLinks, error, dropped, batch, filt, doc>>

crawlVars == <<stack, visited, links_remaining, files, web, seed, max_depth,
               run, status, fetchLog, saveLog, savedUrls, seedText,
               startCount, skips, edgeLinks, error, dropped>>

-----------------------------------------------------------------------------
(* Bounds of the model *)

MaxDepthBound == 2      \* max_depth ranges over 0..MaxDepthBound
MaxRuns == 2            \* top-level invocations made one after the other
MaxOut == 2             \* accepted links on one generated page
MaxBatch == 2           \* URLs in one scrape_text_and_links batch
MaxElems == 4           \* headings and paragraphs of a drawn page
MaxAnchors == 2         \* anchors in one extract_and_filter_links input

-----------------------------------------------------------------------------
(* Python string operations *)

\* s[i-1:i]
Char(s, i) == IF i \in 1..Len(s) THEN SubSeq(s, i, i) ELSE ""

\* sub in s
Contains(s, sub) ==
    \E i \in 1..(Len(s) - Len(sub) + 1) : SubSeq(s, i, i + Len(sub) - 1) = sub

\* the least element of a set of positions, dflt when it is empty
FirstOf(S, dflt) ==
    IF S = {} THEN dflt ELSE CHOOSE i \in S : \A j \in S : i <= j

\* s.find(sub, from) + 1 ; 0 when absent
IndexFrom(s, sub, from) ==
    FirstOf({ i \in from..(Len(s) - Len(sub) + 1) :
                SubSeq(s, i, i + Len(sub) - 1) = sub }, 0)

StartsWith(s, p) == Len(s) >= Len(p) /\ SubSeq(s, 1, Len(p)) = p

UpperAlpha == "ABCDEFGHIJKLMNOPQRSTUVWXYZ"
LowerAlpha == "abcdefghijklmnopqrstuvwxyz"
Digits == "0123456789"

LowerAt(c, i) == IF i = 0 THEN c ELSE Char(LowerAlpha, i)

LowerChar(c) == LowerAt(c, IndexFrom(UpperAlpha, c, 1))

RECURSIVE Lower(_)
\* str.lower()
Lower(s) == IF s = "" THEN "" ELSE LowerChar(Char(s, 1)) \o Lower(Tail(s))

RECURSIVE Replace(_, _, _)
\* str.replace(old, new) for a one-character old
Replace(s, old, new) ==
    IF s = "" THEN ""
    ELSE (IF Char(s, 1) = old THEN new ELSE Char(s, 1))
             \o Replace(Tail(s), old, new)

IsSpace(c) == c \in {" ", "\n", "\t"}

RECURSIVE LStrip(_)
LStrip(s) == IF s # "" /\ IsSpace(Char(s, 1)) THEN LStrip(Tail(s)) ELSE s

RECURSIVE RStrip(_)
RStrip(s) ==
    IF s # "" /\ IsSpace(Char(s, Len(s)))
    THEN RStrip(SubSeq(s, 1, Len(s) - 1)) ELSE s

\* str.strip()
Strip(s) == RStrip(LStrip(s))

RECURSIVE Join(_, _)
\* sep.join(seq)
Join(sep, seq) ==
    IF seq = <<>> THEN ""
    ELSE IF Len(seq) = 1 THEN seq[1]
    ELSE seq[1] \o sep \o Join(sep, Tail(seq))

\* c is one of [a-zA-Z0-9]
IsAlnum(c) == Contains(UpperAlpha \o LowerAlpha \o Digits, c)

RECURSIVE AlnumRun(_)
\* length of the longest prefix of s made of [a-zA-Z0-9]
AlnumRun(s) ==
    IF s # "" /\ IsAlnum(Char(s, 1)) THEN 1 + AlnumRun(Tail(s)) ELSE 0

-----------------------------------------------------------------------------
(* urllib.parse, for URLs without params (;) and without dot segments *)

\* position of the first "?" or "#" at or after from, Len(s)+1 when none
QueryStart(s, from) ==
    FirstOf({IndexFrom(s, "?", from), IndexFrom(s, "#", from)} \ {0},
            Len(s) + 1)

\* the scheme length of s when its first ":" is at position c
SchemeLenAt(s, c) == IF c > 1 /\ AlnumRun(s) >= c - 1 THEN c - 1 ELSE 0

\* length of the scheme of s (the text before the first ":"), 0 when s has none
SchemeLen(s) == SchemeLenAt(s, IndexFrom(s, ":", 1))

EarlierOf(sl, e) == IF sl # 0 /\ sl < e THEN sl ELSE e

\* index of the first character after the netloc of s that starts at a
NetlocEndFrom(s, a) == EarlierOf(IndexFrom(s, "/", a), QueryStart(s, a))

\* index of the first character after the authority //netloc of s
NetlocEnd(s) == NetlocEndFrom(s, SchemeLen(s) + 4)

\* s has an authority after its scheme of length n
HasNetlocAt(s, n) == n > 0 /\ SubSeq(s, n + 2, n + 3) = "//"

PathStartAt(url, n) ==
    IF HasNetlocAt(url, n) THEN NetlocEndFrom(url, n + 4)
    ELSE IF n > 0 THEN n + 2 ELSE 1

PathFrom(url, start) == SubSeq(url, start, QueryStart(url, start) - 1)

\* urlparse(url).path
UrlPath(url) == PathFrom(url, PathStartAt(url, SchemeLen(url)))

RECURSIVE LastSlash(_, _)
\* position of the last "/" of path at or before i, 0 when none
LastSlash(path, i) ==
    IF i = 0 \/ Char(path, i) = "/" THEN i ELSE LastSlash(path, i - 1)

DirUpTo(path, k) == IF k = 0 THEN "/" ELSE SubSeq(path, 1, k)

\* the path up to and including its last "/"
DirOf(path) == DirUpTo(path, LastSlash(path, Len(path)))

\* urljoin for a base of the given origin (scheme://netloc) and path
JoinParts(base, href, origin, bpath) ==
    IF href = "" THEN base
    ELSE IF SchemeLen(href) > 0 THEN href
    ELSE IF StartsWith(href, "//")
         THEN SubSeq(base, 1, SchemeLen(base) + 1) \o href
    ELSE IF StartsWith(href, "/") THEN origin \o href
    ELSE IF StartsWith(href, "?") THEN origin \o bpath \o href
    ELSE origin \o DirOf(bpath) \o href

UrljoinAt(base, href, ne) ==
    JoinParts(base, href, SubSeq(base, 1, ne - 1),
              SubSeq(base, ne, QueryStart(base, ne) - 1))

\* urljoin(base, href) for an absolute base URL
Urljoin(base, href) == UrljoinAt(base, href, NetlocEnd(base))

-----------------------------------------------------------------------------
(* Text extraction: extract_structured_text, flatten_text, extract_names *)

FILTER_KEYWORDS == <<"twitter.com", "x.com", "facebook.com", "mailto:",
                     "intent/tweet">>

\* the dict headers_tags of process_page_content
headers_tags == [h1 |-> "# ", h2 |-> "## ", h3 |-> "### ", h4 |-> "#### ",
                 h5 |-> "##### ", h6 |-> "###### "]

\* one iteration of the for loop of extract_structured_text (lines 40-45);
\* has_header says whether current_header is set
StructStep(structured_text, has_header, element) ==
    IF element.name \in DOMAIN headers_tags
    THEN Append(structured_text,
                [header |-> headers_tags[element.name] \o Strip(element.text),
                 paras |-> <<>>])
    ELSE IF element.name = "p" /\ has_header
    THEN [structured_text EXCEPT
             ![Len(structured_text)].paras = Append(@, Strip(element.text))]
    ELSE structured_text

RECURSIVE StructLoop(_, _, _)
\* the for loop of extract_structured_text over the elements found
StructLoop(elems, structured_text, has_header) ==
    IF elems = <<>> THEN structured_text
    ELSE StructLoop(Tail(elems),
                    StructStep(structured_text, has_header, Head(elems)),
                    has_header \/ Head(elems).name \in DOMAIN headers_tags)

extract_structured_text(soup) == StructLoop(soup.elems, <<>>, FALSE)

\* flatten_text joining the blocks with a single newline
flatten_text_tight(structured_text) ==
    Join("\n", [i \in 1..Len(structured_text) |->
                   Join("\n", <<structured_text[i].header>>
                                  \o structured_text[i].paras)])

flatten_text(structured_text) ==
    Join("\n\n", [i \in 1..Len(structured_text) |->
                     Join("\n", <<structured_text[i].header>>
                                    \o structured_text[i].paras)])

\* extract_names reporting the persons of the page whatever text it is given
extract_names_any(soup, text) == soup.persons

\* extract_names: the keys of the Counter of PERSON entities.  spaCy is an
\* external model: soup.persons is what it reports for the page's flattened
\* text, and it reports nothing for the empty text.
extract_names(soup, text) == IF text = "" THEN {} ELSE soup.persons

-----------------------------------------------------------------------------
(* Link filtering: extract_and_filter_links *)

\* line 58 looking at the href only
AnyName_href(names, href_lower, link_text) ==
    \E name \in names : Contains(href_lower, name)

\* the any() of line 58
AnyName(names, href_lower, link_text) ==
    \E name \in names : Contains(href_lower, name) \/ Contains(link_text, name)

\* the any() of line 59
AnyKeyword(href_lower) ==
    \E k \in 1..Len(FILTER_KEYWORDS) : Contains(href_lower, FILTER_KEYWORDS[k])

\* lines 58-60 for one anchor
AddIfAccepted(links, most_common_names, href, href_lower, link_text) ==
    IF AnyName(most_common_names, href_lower, link_text)
       /\ ~AnyKeyword(href_lower)
    THEN links \cup {href} ELSE links

\* lines 55-60 for one anchor with the href already resolved
FilterStep(links, most_common_names, href, text) ==
    AddIfAccepted(links, most_common_names, href, Lower(href),
                  Lower(Strip(text)))

RECURSIVE FilterLoop(_, _, _, _)
\* the for loop of extract_and_filter_links over soup.find_all('a', href=True)
FilterLoop(anchors, url, most_common_names, links) ==
    IF anchors = <<>> THEN links
    ELSE FilterLoop(Tail(anchors), url, most_common_names,
                    FilterStep(links, most_common_names,
                               Urljoin(url, Head(anchors).href),
                               Head(anchors).text))

extract_and_filter_links(soup, url, most_common_names) ==
    FilterLoop(soup.anchors, url, most_common_names, {})

-----------------------------------------------------------------------------
(* process_page_content *)

NoMatch == [matched |-> FALSE, base_url |-> ""]

\* [a-zA-Z0-9]*\. at the start of s, the run being n characters long
MatchLabelAt(s, n) ==
    IF Char(s, n + 1) = "." THEN [matched |-> TRUE, base_url |-> SubSeq(s, 1, n)]
    ELSE NoMatch

MatchLabel(s) == MatchLabelAt(s, AlnumRun(s))

\* the match m found with the optional group taken, else the match without it
OrWithout(m, rest) == IF m.matched THEN m ELSE MatchLabel(rest)

\* (www\.)?(?P<base_url>[a-zA-Z0-9]*)\. at the start of rest
MatchHost(rest) ==
    IF StartsWith(rest, "www.")
    THEN OrWithout(MatchLabel(SubSeq(rest, 5, Len(rest))), rest)
    ELSE MatchLabel(rest)

\* the regular expression of line 77 applied with re.match:
\* (http|https)://(www\.)?(?P<base_url>[a-zA-Z0-9]*)\.
\* The result is [matched |-> BOOLEAN, base_url |-> the group].
SiteNameMatch(url) ==
    IF StartsWith(url, "http://") THEN MatchHost(SubSeq(url, 8, Len(url)))
    ELSE IF StartsWith(url, "https://") THEN MatchHost(SubSeq(url, 9, Len(url)))
    ELSE NoMatch

NormalizeName(name) == Lower(Replace(name, " ", ""))

\* line 76 for the names found in flat_text
NormalizedNames(soup, flat_text) ==
    { NormalizeName(name) : name \in extract_names(soup, flat_text) }

\* most_common_names without the discard of line 78
NameSet_keep(url, soup) ==
    NormalizedNames(soup, flatten_text(extract_structured_text(soup)))

\* most_common_names after line 78
NameSet(url, soup) ==
    NormalizedNames(soup, flatten_text(extract_structured_text(soup)))
        \ {Lower(SiteNameMatch(url).base_url)}

NoResult == [raised |-> FALSE, none |-> TRUE, text |-> "", links |-> {}]

\* process_page_content(url, content).  A content is
\* [kind |-> "none" | "empty" | "doc", elems, anchors, persons].
\* raised: the call raises (None['base_url'] is a TypeError);
\* none: the text returned is None.
process_page_content(url, content) ==
    IF content.kind # "doc" THEN NoResult
    ELSE IF ~SiteNameMatch(url).matched
    THEN [NoResult EXCEPT !.raised = TRUE]
    ELSE [raised |-> FALSE, none |-> FALSE,
          text |-> flatten_text(extract_structured_text(content)),
          links |-> extract_and_filter_links(content, url,
                                             NameSet(url, content))]

-----------------------------------------------------------------------------
(* save_text_to_file *)

TitleLimit == 50

\* the title crawl_links derives from the URL (line 205)
Title(url) == Replace(UrlPath(url), "/", "_")

\* title[:TitleLimit]
Truncate(title) ==
    IF Len(title) < TitleLimit THEN title ELSE SubSeq(title, 1, TitleLimit)

\* the file name save_text_to_file writes (line 236)
FileName(title) == Replace(Truncate(title), " ", "_") \o ".txt"

WriteFile(fs, name, text) ==
    [n \in DOMAIN fs \cup {name} |-> IF n = name THEN text ELSE fs[n]]

-----------------------------------------------------------------------------
(* The web the crawl runs on *)

\* 45 characters, so that "/bio/" \o Pad is exactly TitleLimit characters
Pad == "kim-lee-and-the-long-road-to-the-white-house-"

UA == "http://www.smith.io/bio/" \o Pad \o "a"
UB == "http://news.io/kim"
UC == "http://www.smith.io/bio/" \o Pad \o "c"
UD == "https://my-site.io/kim"

Urls == {UA, UB, UC, UD}
UrlOrder == <<UA, UB, UC, UD>>

\* anchors every generated page carries besides its links to other pages
ShareHref == "https://Twitter.com/intent/tweet?text=kim"
AboutHref == "/about"

\* every URL a page of this web can name
Fetchable == Urls \cup {Urljoin(u, AboutHref) : u \in Urls} \cup {ShareHref}

\* the name a page's own site is mentioned by
Brand(url) ==
    IF url \in {UA, UC} THEN "Smith"
    ELSE IF url = UD THEN "My Site" ELSE "News"

HrefAt(url, target, nu, nt) ==
    IF SubSeq(url, 1, nu - 1) = SubSeq(target, 1, nt - 1)
    THEN SubSeq(target, nt, Len(target))
    ELSE target

\* how a page at url writes a link to target: relative on the same host
HrefTo(url, target) == HrefAt(url, target, NetlocEnd(url), NetlocEnd(target))

\* a page variant: what the fetcher returns for a URL
Leaf(k) == [kind |-> k, targets |-> {}]
Linked == { [kind |-> "ok", targets |-> t] :
              t \in { x \in SUBSET Urls : Cardinality(x) <= MaxOut } }
Variants ==
    { Leaf(k) : k \in {"fail", "empty", "nohead", "headonly", "selfname"} }
        \cup Linked

\* the variants the fetcher may return for url
VariantsOf(url) ==
    IF url = UA THEN {Leaf("fail"), Leaf("selfname")} \cup Linked
    ELSE IF url = UB THEN {Leaf("fail"), Leaf("empty"), Leaf("headonly")}
                              \cup Linked
    ELSE IF url = UC THEN {Leaf("fail"), Leaf("nohead")} \cup Linked
    ELSE {Leaf("fail"), Leaf("headonly")}

Unknown == [kind |-> "unknown", targets |-> {}]

\* the anchors a page at url has for the targets ts
TargetAnchors(url, ts) ==
    [i \in 1..Len(ts) |-> [href |-> HrefTo(url, ts[i]), text |-> " Kim "]]

Doc(elems, anchors, persons) ==
    [kind |-> "doc", elems |-> elems, anchors |-> anchors, persons |-> persons]

NoDoc(kind) ==
    [kind |-> kind, elems |-> <<>>, anchors |-> <<>>, persons |-> {}]

Heading(url) == [name |-> "h1", text |-> " About " \o Brand(url) \o " "]
Para(url) == [name |-> "p", text |-> "Kim and Al Ray on " \o url \o "\n"]
OwnPara(url) == [name |-> "p", text |-> Brand(url) \o " reports."]
ShareAnchor == [href |-> ShareHref, text |-> "Share Kim"]
AboutAnchor == [href |-> AboutHref, text |-> "About"]

\* the content the fetcher returns for url under variant v
Content(url, v) ==
    CASE v.kind = "fail" -> NoDoc("none")
      [] v.kind = "empty" -> NoDoc("empty")
      [] v.kind = "nohead" ->
            Doc(<<Para(url)>>,
                <<ShareAnchor, [href |-> HrefTo(url, UB), text |-> " Kim "],
                  AboutAnchor>>,
                {"Kim", "Al Ray"})
      [] v.kind = "headonly" ->
            Doc(<<Heading(url)>>, <<ShareAnchor, AboutAnchor>>, {})
      [] v.kind = "selfname" ->
            Doc(<<Heading(url), OwnPara(url)>>,
                <<[href |-> HrefTo(url, UB), text |-> Brand(url)],
                  AboutAnchor>>,
                {Brand(url)})
      [] v.kind = "ok" ->
            Doc(<<Heading(url), Para(url)>>,
                <<ShareAnchor>>
                    \o TargetAnchors(url, SelectSeq(UrlOrder,
                                          LAMBDA t : t \in v.targets))
                    \o <<AboutAnchor>>,
                {"Kim", "Al Ray"})

\* Content, tabulated
ContentOf == [u \in Fetchable |-> [v \in Variants |-> Content(u, v)]]

\* process_page_content, tabulated over the pages of this web
Processed ==
    [u \in Fetchable |->
        [v \in Variants |-> process_page_content(u, Content(u, v))]]

\* the file name of lines 205 and 236, tabulated over the pages of this web
FileOf == [u \in Fetchable |-> FileName(Title(u))]

-----------------------------------------------------------------------------
(* fetch and scrape_text_and_links *)

\* fetch(session, url): (url, content), content None on any failure; page is
\* the variant the content comes from
fetch(url, w) ==
    [url |-> url, page |-> w[url], content |-> ContentOf[url][w[url]]]

\* lines 114-118: the results of process_contents, which raises when one
\* process_page_content does
Outcome(results) ==
    [raised |-> \E i \in 1..Len(results) : results[i].raised,
     results |-> results]

\* process_contents (lines 96-99) on the responses kept
ProcessAll(to_process) ==
    [i \in 1..Len(to_process) |->
        Processed[to_process[i].url][to_process[i].page]]

\* lines 111-118 without the filter on failed responses
ScrapeResults_keep(responses) == Outcome(ProcessAll(responses))

\* scrape_text_and_links from the gathered responses on (lines 111-118):
\* [raised |-> process_page_content raised, results |-> the list returned]
ScrapeResults(responses) ==
    Outcome(ProcessAll(SelectSeq(responses,
                                 LAMBDA r : r.content.kind # "none")))

\* scrape_text_and_links(urls) on the web w; asyncio.gather returns the
\* responses in the order of urls
scrape_text_and_links(urls, w) ==
    ScrapeResults([i \in 1..Len(urls) |-> fetch(urls[i], w)])

-----------------------------------------------------------------------------
(* crawl_links *)

NoSave == "<no save>"

Frame(url, depth, slept) ==
    [url |-> url, depth |-> depth, pc |-> "guard", text |-> "",
     links |-> {}, todo |-> {}, slept |-> slept]

Top == Head(stack)

\* the visited set kept from one top-level call to the next
NewVisited_shared(old) == old

\* lines 186-187: the visited set of a top-level call made without one
NewVisited(old) == {}

\* the insertion of line 193 left out
VisitedAdd_forget(vis, url) == vis

\* line 193
VisitedAdd(vis, url) == vis \cup {url}

\* the guard of line 189 testing the depth only
Skip_depth(f) == f.depth > max_depth

\* the guard of line 189
Skip(f) == f.depth > max_depth \/ f.url \in visited

\* the guard of line 222 testing current_depth instead of new_depth
CanDescend_late(f) == f.depth <= max_depth

\* the guard of line 222
CanDescend(f) == f.depth + 1 <= max_depth

\* the links the callers of the current call have not yet recursed into
Pending ==
    UNION { stack[k].todo : k \in { j \in 2..Len(stack) :
                                      CanDescend(stack[j]) } }

\* the current call returns to its caller
Return ==
    /\ stack' = Tail(stack)
    /\ status' = IF Len(stack) = 1 THEN "returned" ELSE status

\* an exception leaves the current call and, uncaught, every caller
Raise(exc) ==
    /\ stack' = <<>>
    /\ status' = "raised"
    /\ error' = exc
    /\ dropped' = Pending \ visited

SetTop(f) == stack' = <<f>> \o Tail(stack)

\* lines 186-193: the guard, then the insertion into visited
Guard ==
    /\ stack # <<>> /\ Top.pc = "guard"
    /\ IF Skip(Top)
       THEN /\ Return
            /\ skips' = skips \cup {[url |-> Top.url, depth |-> Top.depth]}
            /\ UNCHANGED visited
       ELSE /\ visited' = VisitedAdd(visited, Top.url)
            /\ SetTop([Top EXCEPT !.pc = "scrape"])
            /\ UNCHANGED <<status, skips>>
    /\ UNCHANGED <<links_remaining, files, web, seed, max_depth, run,
                   fetchLog, saveLog, savedUrls, seedText, startCount,
                   edgeLinks, error, dropped, batch, filt, doc>>

\* lines 197-201 on what scrape_text_and_links gave: r.raised, it raised;
\* r.results, the list it returned
Unpack(r) ==
    IF r.raised
    THEN Raise("TypeError") /\ UNCHANGED edgeLinks
    ELSE IF r.results = <<>>
    THEN Return /\ UNCHANGED <<edgeLinks, error, dropped>>
    ELSE /\ SetTop([Top EXCEPT !.pc = "save",
                               !.text = r.results[1].text,
                               !.links = r.results[1].links,
                               !.todo = r.results[1].links])
         /\ edgeLinks' = IF Top.depth = max_depth
                         THEN edgeLinks \cup r.results[1].links
                         ELSE edgeLinks
         /\ UNCHANGED <<status, error, dropped>>

\* line 195 on the web w
ScrapeOn(w) ==
    /\ web' = w
    /\ fetchLog' = Append(fetchLog, [url |-> Top.url, depth |-> Top.depth])
    /\ Unpack(scrape_text_and_links(<<Top.url>>, w))

\* lines 195-201: fetch and process the page, unpack the result
Scrape ==
    /\ stack # <<>> /\ Top.pc = "scrape"
    /\ \E v \in (IF web[Top.url] = Unknown THEN VariantsOf(Top.url)
                 ELSE {web[Top.url]}) :
          ScrapeOn([web EXCEPT ![Top.url] = v])
    /\ UNCHANGED <<visited, links_remaining, files, seed, max_depth, run,
                   saveLog, savedUrls, seedText, startCount, skips, batch,
                   filt, doc>>

\* lines 203-209: save the text; open() may raise, nothing catches it
Save ==
    /\ stack # <<>> /\ Top.pc = "save"
    /\ IF Top.text # ""
       THEN /\ saveLog' = saveLog \cup {[url |-> Top.url, text |-> Top.text]}
            /\ seedText' = IF Len(stack) = 1
                           THEN [seedText EXCEPT ![run] = Top.text]
                           ELSE seedText
            /\ \/ /\ files' = WriteFile(files, FileOf[Top.url], Top.text)
                  /\ savedUrls' = savedUrls \cup {Top.url}
                  /\ SetTop([Top EXCEPT !.pc = "release"])
                  /\ UNCHANGED <<status, error, dropped>>
               \/ /\ Raise("OSError")
                  /\ UNCHANGED <<files, savedUrls>>
       ELSE /\ SetTop([Top EXCEPT !.pc = "release"])
            /\ UNCHANGED <<files, savedUrls, saveLog, seedText, status,
                           error, dropped>>
    /\ UNCHANGED <<visited, links_remaining, web, seed, max_depth, run,
                   fetchLog, startCount, skips, edgeLinks, batch, filt, doc>>

\* lines 211-217 with the release of line 214 left out
Release_none ==
    /\ stack # <<>> /\ Top.pc = "release"
    /\ SetTop([Top EXCEPT !.pc = "loop"])
    /\ UNCHANGED <<visited, links_remaining, files, web, seed, max_depth, run,
                   status, fetchLog, saveLog, savedUrls, seedText, startCount,
                   skips, edgeLinks, error, dropped, batch, filt, doc>>

\* lines 211-217: links_remaining.release(len(links))
Release ==
    /\ stack # <<>> /\ Top.pc = "release"
    /\ links_remaining' = links_remaining + Cardinality(Top.links)
    /\ SetTop([Top EXCEPT !.pc = "loop"])
    /\ UNCHANGED <<visited, files, web, seed, max_depth, run, status,
                   fetchLog, saveLog, savedUrls, seedText, startCount,
                   skips, edgeLinks, error, dropped, batch, filt, doc>>

\* lines 219-227 with the call of line 227 put off: the loop goes on to the
\* next link before the call for this one has run
Recurse_deferred ==
    /\ stack # <<>> /\ Top.pc = "loop"
    /\ IF CanDescend(Top) /\ Top.todo # {}
       THEN \E link \in Top.todo :
               stack' = <<[Top EXCEPT !.todo = @ \ {link}],
                          Frame(link, Top.depth + 1, max_depth > 0)>>
                            \o Tail(stack)
       ELSE SetTop([Top EXCEPT !.pc = "acquire"])
    /\ UNCHANGED <<visited, links_remaining, files, web, seed, max_depth,
                   run, status, fetchLog, saveLog, savedUrls, seedText,
                   startCount, skips, edgeLinks, error, dropped, batch, filt, doc>>

\* lines 219-227: one iteration of the for loop over links (in the order the
\* list made from the set happens to have), or its end
Recurse ==
    /\ stack # <<>> /\ Top.pc = "loop"
    /\ IF CanDescend(Top) /\ Top.todo # {}
       THEN \E link \in Top.todo :
               stack' = <<Frame(link, Top.depth + 1, max_depth > 0),
                          [Top EXCEPT !.todo = @ \ {link}]>> \o Tail(stack)
       ELSE SetTop([Top EXCEPT !.pc = "acquire"])
    /\ UNCHANGED <<visited, links_remaining, files, web, seed, max_depth,
                   run, status, fetchLog, saveLog, savedUrls, seedText,
                   startCount, skips, edgeLinks, error, dropped, batch, filt, doc>>

\* lines 229-232 acquiring one permit whatever len(links) is
Acquire_one ==
    /\ stack # <<>> /\ Top.pc = "acquire"
    /\ links_remaining >= (IF Top.links = {} THEN 0 ELSE 1)
    /\ links_remaining' = links_remaining - (IF Top.links = {} THEN 0 ELSE 1)
    /\ Return
    /\ UNCHANGED <<visited, files, web, seed, max_depth, run, fetchLog,
                   saveLog, savedUrls, seedText, startCount, skips,
                   edgeLinks, error, dropped, batch, filt, doc>>

\* lines 229-232: links_remaining.acquire(len(links)), which blocks while the
\* semaphore holds less; then the call returns
Acquire ==
    /\ stack # <<>> /\ Top.pc = "acquire"
    /\ links_remaining >= Cardinality(Top.links)
    /\ links_remaining' = links_remaining - Cardinality(Top.links)
    /\ Return
    /\ UNCHANGED <<visited, files, web, seed, max_depth, run, fetchLog,
                   saveLog, savedUrls, seedText, startCount, skips,
                   edgeLinks, error, dropped, batch, filt, doc>>

\* the next top-level call crawl_links(seed, max_depth=max_depth): a new
\* visited set; the semaphore, the output directory and the web stay
Rerun ==
    /\ stack = <<>> /\ status \in {"returned", "raised"} /\ run < MaxRuns
    /\ run' = run + 1
    /\ stack' = <<Frame(seed, 0, FALSE)>>
    /\ visited' = NewVisited(visited)
    /\ status' = "running"
    /\ fetchLog' = <<>>
    /\ saveLog' = {}
    /\ skips' = {}
    /\ edgeLinks' = {}
    /\ error' = "none"
    /\ dropped' = {}
    /\ startCount' = links_remaining
    /\ UNCHANGED <<links_remaining, files, web, seed, max_depth, savedUrls,
                   seedText, batch, filt, doc>>

IdleBatch == [phase |-> "idle", urls |-> <<>>, done |-> {},
              responses |-> <<>>, results |-> <<>>]
IdleFilt == [phase |-> "idle", url |-> "", anchors |-> <<>>, names |-> {},
             links |-> {}]

IdleDoc == [phase |-> "idle", elems |-> <<>>, text |-> ""]

Seeds == {UA, UB}

Init ==
    /\ seed \in Seeds
    /\ max_depth \in 0..MaxDepthBound
    /\ stack = <<Frame(seed, 0, FALSE)>>
    /\ visited = {}
    /\ links_remaining = 0
    /\ files = <<>>
    /\ web = [u \in Fetchable |-> Unknown]
    /\ run = 1
    /\ status = "running"
    /\ fetchLog = <<>>
    /\ saveLog = {}
    /\ savedUrls = {}
    /\ seedText = [r \in 1..MaxRuns |-> NoSave]
    /\ startCount = 0
    /\ skips = {}
    /\ edgeLinks = {}
    /\ error = "none"
    /\ dropped = {}
    /\ batch = IdleBatch
    /\ filt = IdleFilt
    /\ doc = IdleDoc

Next == Guard \/ Scrape \/ Save \/ Release \/ Recurse \/ Acquire \/ Rerun

Spec == Init /\ [][Next]_vars

\* the steps of a running crawl_links call
CrawlStep == Guard \/ Scrape \/ Save \/ Release \/ Recurse \/ Acquire

\* one top-level call; the interpreter keeps executing a call that can take
\* a step: a fetch ends with a response or an error, the sleep of line 226
\* ends
SpecLive == Init /\ [][CrawlStep]_vars /\ WF_vars(CrawlStep)

-----------------------------------------------------------------------------
(* One call crawl_links(starting_url, current_depth, max_depth, visited) with
   every argument given by the caller *)

InitCall ==
    /\ seed \in Seeds
    /\ max_depth \in 0..MaxDepthBound
    /\ \E current_depth \in 0..(MaxDepthBound + 1) :
          stack = <<Frame(seed, current_depth, FALSE)>>
    /\ visited \in SUBSET Urls
    /\ links_remaining = 0
    /\ files = <<>>
    /\ web = [u \in Fetchable |-> Unknown]
    /\ run = 1
    /\ status = "running"
    /\ fetchLog = <<>>
    /\ saveLog = {}
    /\ savedUrls = {}
    /\ seedText = [r \in 1..MaxRuns |-> NoSave]
    /\ startCount = 0
    /\ skips = {}
    /\ edgeLinks = {}
    /\ error = "none"
    /\ dropped = {}
    /\ batch = IdleBatch
    /\ filt = IdleFilt
    /\ doc = IdleDoc

SpecCall == InitCall /\ [][CrawlStep]_vars

-----------------------------------------------------------------------------
(* One call of extract_and_filter_links on drawn inputs *)

PoolHrefs == {"/kim", ShareHref, "http://max.com/lee", AboutHref,
              "mailto:KIM@news.io", UB}
PoolTexts == {" Kim ", "About"}
PoolNames == {"kim", "lee", "alray"}

AnchorPool == { [href |-> h, text |-> t] : h \in PoolHrefs, t \in PoolTexts }

AnchorLists == UNION { [1..n -> AnchorPool] : n \in 0..MaxAnchors }

Idle ==
    /\ seed = UA
    /\ max_depth = 0
    /\ stack = <<>>
    /\ visited = {}
    /\ links_remaining = 0
    /\ files = <<>>
    /\ run = 1
    /\ status = "idle"
    /\ fetchLog = <<>>
    /\ saveLog = {}
    /\ savedUrls = {}
    /\ seedText = [r \in 1..MaxRuns |-> NoSave]
    /\ startCount = 0
    /\ skips = {}
    /\ edgeLinks = {}
    /\ error = "none"
    /\ dropped = {}

InitFilter ==
    /\ Idle
    /\ web = [u \in Fetchable |-> Unknown]
    /\ batch = IdleBatch
    /\ doc = IdleDoc
    /\ \E url \in {UA, UB}, anchors \in AnchorLists, names \in SUBSET PoolNames :
          filt = [phase |-> "input", url |-> url, anchors |-> anchors,
                  names |-> names, links |-> {}]

\* lines 52-61 on the input drawn
FilterApply ==
    /\ filt.phase = "input"
    /\ filt' = [filt EXCEPT
                  !.phase = "done",
                  !.links = extract_and_filter_links(
                                [anchors |-> filt.anchors], filt.url,
                                filt.names)]
    /\ UNCHANGED <<crawlVars, batch, doc>>

NextFilter == FilterApply

SpecFilter == InitFilter /\ [][NextFilter]_vars

-----------------------------------------------------------------------------
(* One call of scrape_text_and_links on a batch of URLs *)

UrlLists == UNION { [1..n -> Urls] : n \in 1..MaxBatch }

\* the variants drawn for the pages of a batch: at most one link each
BatchVariantsOf(url) ==
    { v \in VariantsOf(url) : Cardinality(v.targets) <= 1 }

\* the response slot of a fetch task that has not completed
NotYet(url) == [url |-> url, page |-> Unknown, content |-> NoDoc("pending")]

\* the variants drawn for url in a batch: none when the batch has not url
BatchDraw(url, urls) ==
    IF \E i \in 1..Len(urls) : urls[i] = url THEN BatchVariantsOf(url)
    ELSE {Unknown}

InitBatch ==
    /\ Idle
    /\ filt = IdleFilt
    /\ doc = IdleDoc
    /\ \E urls \in UrlLists :
          /\ \E va \in BatchDraw(UA, urls), vb \in BatchDraw(UB, urls),
                vc \in BatchDraw(UC, urls), vd \in BatchDraw(UD, urls) :
                web = [u \in Fetchable |->
                          IF u = UA THEN va ELSE IF u = UB THEN vb
                          ELSE IF u = UC THEN vc ELSE IF u = UD THEN vd
                          ELSE Unknown]
          /\ batch = [phase |-> "fetching", urls |-> urls, done |-> {},
                      responses |-> [i \in 1..Len(urls) |-> NotYet(urls[i])],
                      results |-> <<>>]

\* lines 107-108: the fetch task of urls[i] completes; the tasks complete in
\* any order and gather puts each response at the index of its task
BatchFetch ==
    /\ batch.phase = "fetching"
    /\ \E i \in (1..Len(batch.urls)) \ batch.done :
          batch' = [batch EXCEPT
                      !.done = @ \cup {i},
                      !.responses[i] = fetch(batch.urls[i], web)]
    /\ UNCHANGED <<crawlVars, filt, doc>>

\* lines 111-118 ending with the outcome r
BatchEnd(r) ==
    batch' = [batch EXCEPT
                !.phase = IF r.raised THEN "raised" ELSE "done",
                !.results = IF r.raised THEN <<>> ELSE r.results]

\* lines 108-118: every task is done; filter, process, return
BatchProcess ==
    /\ batch.phase = "fetching"
    /\ batch.done = 1..Len(batch.urls)
    /\ BatchEnd(ScrapeResults(batch.responses))
    /\ UNCHANGED <<crawlVars, filt, doc>>

NextBatch == BatchFetch \/ BatchProcess

SpecBatch == InitBatch /\ [][NextBatch]_vars

-----------------------------------------------------------------------------
(* One text extraction, lines 73-74 of process_page_content, on a drawn page *)

ElemPool == { [name |-> "h1", text |-> " Intro "],
              [name |-> "h2", text |-> "Details"],
              [name |-> "h6", text |-> "Deep\n"],
              [name |-> "p", text |-> "P1"],
              [name |-> "p", text |-> " P2 "],
              [name |-> "p", text |-> ""] }

\* what find_all gives at line 36: the headings and paragraphs of the page
\* in document order
ElemLists == UNION { [1..n -> ElemPool] : n \in 0..MaxElems }

InitText ==
    /\ Idle
    /\ web = [u \in Fetchable |-> Unknown]
    /\ batch = IdleBatch
    /\ filt = IdleFilt
    /\ \E elems \in ElemLists :
          doc = [phase |-> "input", elems |-> elems, text |-> ""]

\* lines 73-74 on the page drawn
TextApply ==
    /\ doc.phase = "input"
    /\ doc' = [doc EXCEPT
                 !.phase = "done",
                 !.text = flatten_text(extract_structured_text(
                                           [elems |-> doc.elems]))]
    /\ UNCHANGED <<crawlVars, batch, filt>>

NextText == TextApply

SpecText == InitText /\ [][NextText]_vars

-----------------------------------------------------------------------------
(* Vocabulary of the properties *)

FetchedUrls == { fetchLog[i].url : i \in 1..Len(fetchLog) }

\* the variant and the extraction result of a page that was fetched
PageOf(url) == ContentOf[url][web[url]]
ResultOf(url) == Processed[url][web[url]]

RECURSIVE RecordedFrom(_)
\* the link counts of the calls stack[k], stack[k+1], ...
RecordedFrom(k) ==
    IF k > Len(stack) THEN 0
    ELSE Cardinality(stack[k].links) + RecordedFrom(k + 1)

\* the first DNS label of the host of url after an optional "www.", lowercased
HostLabel(url) ==
    LET host == SubSeq(url, SchemeLen(url) + 4, NetlocEnd(url) - 1)
        h == IF StartsWith(host, "www.") THEN SubSeq(host, 5, Len(host))
             ELSE host
        dot == IndexFrom(h, ".", 1)
    IN  Lower(IF dot = 0 THEN h ELSE SubSeq(h, 1, dot - 1))

\* the normalized names of a page minus the name of its own site
NamesLeft(url, content) ==
    LET text == flatten_text(extract_structured_text(content))
    IN  { NormalizeName(n) : n \in extract_names(content, text) }
            \ {HostLabel(url)}

NamesLeftOf == [u \in Fetchable |-> [v \in Variants |-> NamesLeft(u, ContentOf[u][v])]]

Extracted(f) == f.pc \in {"save", "release", "loop", "acquire"}

-----------------------------------------------------------------------------
(* C1 *)

\* C1: within one top-level invocation no URL is fetched more than once;
\* a URL is in visited before it is fetched, and every call that has passed
\* the guard has its URL in visited.
C1_NoRefetch ==
    /\ \A i, j \in 1..Len(fetchLog) :
          i # j => fetchLog[i].url # fetchLog[j].url
    /\ FetchedUrls \subseteq visited
    /\ \A k \in 1..Len(stack) : stack[k].pc # "guard" => stack[k].url \in visited

\* a call for a URL that was already fetched was turned away by the guard
C1_Witness ==
    /\ \E s \in skips : s.depth <= max_depth /\ s.url \in FetchedUrls
    /\ Len(fetchLog) >= 2

-----------------------------------------------------------------------------
(* C2 *)

\* C2 as stated: a link found on a page at current_depth = max_depth is
\* never fetched and never added to visited.
C2_EdgeLinksNeverVisited == edgeLinks \cap visited = {}

\* C2: no call and no fetch is made at a depth above max_depth; a page at
\* current_depth = max_depth counts its links into links_remaining and
\* recurses into none of them; every URL in visited or saved was reached by a
\* call at depth <= max_depth.
C2_DepthBound ==
    /\ \A k \in 1..Len(stack) : stack[k].depth <= max_depth
    /\ \A i \in 1..Len(fetchLog) : fetchLog[i].depth <= max_depth
    /\ \A u \in visited :
          u \in FetchedUrls
              \/ (stack # <<>> /\ Top.url = u /\ Top.pc = "scrape")
    /\ \A s \in saveLog : s.url \in FetchedUrls
    /\ \A k \in 1..Len(stack) :
          stack[k].depth = max_depth =>
              /\ stack[k].todo = stack[k].links
              /\ stack[k].pc \in {"loop", "acquire"} =>
                    links_remaining >= startCount + Cardinality(stack[k].links)

\* a page at max_depth has recorded a link that was not fetched
C2_Witness ==
    /\ stack # <<>> /\ Top.pc = "acquire" /\ Top.depth = max_depth
    /\ Top.links \ visited # {}
    /\ links_remaining >= Cardinality(Top.links)

-----------------------------------------------------------------------------
(* C3 *)

\* C3: a failure of save_text_to_file leaves no link of the node's parent
\* or of its ancestors uncrawled.
C3_SaveFailureScoped == ~(error = "OSError" /\ dropped # {})

-----------------------------------------------------------------------------
(* C4 *)

\* C4: the step in which the fetch of a URL fails writes no file, saves
\* nothing, leaves links_remaining and visited (which holds the URL)
\* unchanged, returns to the caller with the caller's remaining links
\* untouched, raises nothing, and is the only fetch of that URL.
C4_FetchFailure ==
    [][ (stack # <<>> /\ Top.pc = "scrape" /\ fetchLog' # fetchLog
            /\ web'[Top.url].kind = "fail")
        => /\ files' = files /\ saveLog' = saveLog /\ savedUrls' = savedUrls
           /\ links_remaining' = links_remaining
           /\ visited' = visited /\ Top.url \in visited'
           /\ stack' = Tail(stack)
           /\ status' # "raised"
           /\ Top.url \notin FetchedUrls ]_vars

\* after a failed fetch the next sibling was fetched
C4_Witness ==
    \E i \in 1..(Len(fetchLog) - 1) :
        /\ web[fetchLog[i].url].kind = "fail"
        /\ fetchLog[i].depth >= 1
        /\ fetchLog[i + 1].depth = fetchLog[i].depth
        /\ fetchLog[i].url \in visited

-----------------------------------------------------------------------------
(* C5 *)

\* C5: when a crawl has returned, there are as many files as pages saved
\* and the file of every saved page holds that page's text.
C5_OneFilePerPage ==
    status = "returned" =>
        /\ Cardinality(DOMAIN files) = Cardinality(savedUrls)
        /\ \A u \in savedUrls : files[FileName(Title(u))] = ResultOf(u).text

-----------------------------------------------------------------------------
(* C6 *)

\* C6: a crawl with max_depth = 1 from a page a whose only accepted link
\* goes to b, whose only accepted link goes back to a, ends, when no save
\* fails, having fetched a then b, with exactly two files, and returns.
C6_TwoPageCycle ==
    \A a, b \in Urls :
        (/\ a # b /\ seed = a /\ max_depth = 1 /\ run = 1
         /\ web[a] = [kind |-> "ok", targets |-> {b}]
         /\ web[b] = [kind |-> "ok", targets |-> {a}]
         /\ stack = <<>> /\ error # "OSError")
        => /\ fetchLog = <<[url |-> a, depth |-> 0], [url |-> b, depth |-> 1]>>
           /\ Cardinality(DOMAIN files) = 2
           /\ status = "returned"

-----------------------------------------------------------------------------
(* C9 *)

-----------------------------------------------------------------------------
(* C10 *)

\* C10: every top-level call on the same seed and the same web fetches the
\* seed first and passes the same text for it to save_text_to_file as the
\* first call did, whatever links_remaining was left at.
C10_SameSeedText ==
    /\ \A r \in 1..run :
          (r < run \/ status # "running") => seedText[r] = seedText[1]
    /\ status # "running" => (fetchLog # <<>> /\ fetchLog[1].url = seed)

\* a second call that began with links_remaining above 0 saved the seed
C10_Witness ==
    /\ run = 2 /\ status # "running"
    /\ startCount > 0
    /\ seedText[2] # NoSave

-----------------------------------------------------------------------------
(* C7 *)

\* the acceptance rule of a link: a name occurs in the lowercased href or
\* in the lowercased anchor text, and no block-list entry occurs in the
\* lowercased href
C7_Accept(href, text, names) ==
    /\ \E n \in names : Contains(Lower(href), n) \/ Contains(Lower(text), n)
    /\ \A k \in 1..Len(FILTER_KEYWORDS) :
          ~Contains(Lower(href), FILTER_KEYWORDS[k])

\* C7: extract_and_filter_links returns exactly the set of the resolved
\* hrefs of the anchors the acceptance rule accepts.
C7_LinkAcceptance ==
    filt.phase = "done" =>
        filt.links =
            { Urljoin(filt.url, filt.anchors[i].href) :
                i \in { j \in 1..Len(filt.anchors) :
                          C7_Accept(Urljoin(filt.url, filt.anchors[j].href),
                                    filt.anchors[j].text, filt.names) } }

\* one anchor matched a name and was rejected by the block-list, another
\* was accepted through its text alone
C7_Witness ==
    /\ filt.phase = "done" /\ Len(filt.anchors) = 2
    /\ filt.anchors[1].href = ShareHref /\ "kim" \in filt.names
    /\ filt.anchors[2] = [href |-> AboutHref, text |-> " Kim "]
    /\ filt.links = {Urljoin(filt.url, AboutHref)}

-----------------------------------------------------------------------------
(* C8 *)

\* C8: the list scrape_text_and_links returns has one entry per input URL,
\* entry i being the result of processing what was fetched for urls[i].
C8_IndexAligned ==
    batch.phase = "done" =>
        /\ Len(batch.results) = Len(batch.urls)
        /\ \A i \in 1..Len(batch.urls) :
              batch.results[i] = ResultOf(batch.urls[i])

-----------------------------------------------------------------------------
(* C11 *)

RECURSIVE Outstanding(_)
\* the link counts released and not yet acquired by the calls stack[k],
\* stack[k+1], ...
Outstanding(k) ==
    IF k > Len(stack) THEN 0
    ELSE (IF stack[k].pc \in {"loop", "acquire"}
          THEN Cardinality(stack[k].links) ELSE 0) + Outstanding(k + 1)

-----------------------------------------------------------------------------
(* C12 *)

\* C12: links_remaining is never below 0, and whenever a call is at the
\* acquire of line 231 the counter holds at least len(links), so the
\* acquire is enabled.
C12_NeverBlocks ==
    /\ links_remaining >= 0
    /\ (stack # <<>> /\ Top.pc = "acquire")
          => /\ links_remaining >= Cardinality(Top.links)
             /\ ENABLED Acquire

\* a call is at its acquire with exactly what it needs in the counter
C12_Witness ==
    /\ stack # <<>> /\ Top.pc = "acquire"
    /\ Cardinality(Top.links) >= 2
    /\ links_remaining = Cardinality(Top.links)

-----------------------------------------------------------------------------
(* C13 *)

\* C13: every top-level crawl_links call eventually returns.
C13_EventuallyReturns == (status = "running") ~> (status = "returned")

\* every top-level crawl_links call eventually ends, by returning or by
\* an exception
C13_EventuallyEnds == (status = "running") ~> (status # "running")

-----------------------------------------------------------------------------
(* C14 *)

\* C14: the calls in progress form one chain from the seed down, each
\* caller waiting in its loop for the call of one of its links, so only the
\* innermost call fetches or writes; the fetches are in depth-first
\* order: after the fetch of a call still in progress every later fetch
\* lies in its subtree, so the subtree of a link is complete (its
\* calls have left the chain) when the next link of the same page is fetched.
C14_DepthFirst ==
    /\ \A k \in 1..Len(stack) : stack[k].depth = Len(stack) - k
    /\ \A k \in 2..Len(stack) :
          /\ stack[k].pc = "loop"
          /\ stack[k - 1].url \in stack[k].links \ stack[k].todo
    /\ \A i \in 1..(Len(fetchLog) - 1) :
          fetchLog[i + 1].depth <= fetchLog[i].depth + 1
    /\ \A k \in 1..Len(stack) :
          stack[k].pc \notin {"guard", "scrape"} =>
              \E i \in 1..Len(fetchLog) :
                  /\ fetchLog[i] = [url |-> stack[k].url,
                                    depth |-> stack[k].depth]
                  /\ \A j \in (i + 1)..Len(fetchLog) :
                        fetchLog[j].depth > stack[k].depth

\* the second link of a page is fetched after the first link's page was
\* saved and that page's own link was fetched
C14_Witness ==
    \E i \in 1..(Len(fetchLog) - 2) :
        /\ fetchLog[i].depth = 1 /\ fetchLog[i].url \in savedUrls
        /\ fetchLog[i + 1].depth = 2
        /\ fetchLog[i + 2].depth = 1

-----------------------------------------------------------------------------
(* C15 *)

\* C15: the step of a call whose current_depth is above max_depth or whose
\* URL is in visited is a return that leaves visited, links_remaining and
\* the files as they were, fetches and saves nothing, raises nothing and
\* starts no call (so runs no sleep of the loop).
C15_GuardFrame ==
    [][ (stack # <<>> /\ Top.pc = "guard"
            /\ (Top.depth > max_depth \/ Top.url \in visited))
        => /\ stack' = Tail(stack)
           /\ visited' = visited
           /\ links_remaining' = links_remaining
           /\ files' = files /\ savedUrls' = savedUrls /\ saveLog' = saveLog
           /\ fetchLog' = fetchLog /\ web' = web
           /\ error' = error /\ status' # "raised" ]_vars

\* a call made with current_depth above max_depth for a URL not in visited
\* has returned
C15_Witness ==
    /\ status = "returned"
    /\ \E s \in skips : s.url = seed /\ s.depth > max_depth
    /\ seed \notin visited
    /\ fetchLog = <<>>

-----------------------------------------------------------------------------
(* C16 *)

\* the page has no paragraph under any heading
NoParagraphText(content) ==
    \A i \in 1..Len(extract_structured_text(content)) :
        extract_structured_text(content)[i].paras = <<>>

NoParagraphOf ==
    [u \in Fetchable |-> [v \in Variants |-> NoParagraphText(Content(u, v))]]

\* C16: no text is passed to save_text_to_file, and no link is recorded,
\* for a page that has no paragraph under any heading.
C16_ExtractionEmpty ==
    /\ \A s \in saveLog : ~NoParagraphOf[s.url][web[s.url]]
    /\ \A k \in 1..Len(stack) :
          (Extracted(stack[k]) /\ NoParagraphOf[stack[k].url][web[stack[k].url]])
              => stack[k].links = {}

-----------------------------------------------------------------------------
(* C17 *)

\* C17: process_page_content raises for no URL and no content.
C17_SiteNameNeverFails == error # "TypeError"

-----------------------------------------------------------------------------
(* C18 *)

C18_Levels == [h1 |-> 1, h2 |-> 2, h3 |-> 3, h4 |-> 4, h5 |-> 5, h6 |-> 6]

C18_IsHeading(e) == e.name \in DOMAIN C18_Levels

\* n times "#"
C18_Hashes(n) == SubSeq("######", 1, n)

\* the heading at position i of elems followed by the paragraphs between
\* it and the next heading, one per line; texts without the whitespace around
C18_Block(elems, i) ==
    LET next == IF \E j \in (i + 1)..Len(elems) : C18_IsHeading(elems[j])
                THEN CHOOSE j \in (i + 1)..Len(elems) :
                        /\ C18_IsHeading(elems[j])
                        /\ \A k \in (i + 1)..(j - 1) : ~C18_IsHeading(elems[k])
                ELSE Len(elems) + 1
        paras == SubSeq(elems, i + 1, next - 1)
    IN  Join("\n",
             <<C18_Hashes(C18_Levels[elems[i].name]) \o " "
                   \o Strip(elems[i].text)>>
                 \o [k \in 1..Len(paras) |-> Strip(paras[k].text)])

\* the positions of the headings of elems, in order
C18_Headings(elems) ==
    SelectSeq([i \in 1..Len(elems) |-> i],
              LAMBDA i : C18_IsHeading(elems[i]))

\* C18: the extracted text is one block per heading, in document order,
\* blocks separated by one blank line; a block is the heading line (as many
\* "#" as the level, a space, the heading text) followed by one line per
\* paragraph found between the heading and the next one; paragraphs before
\* the first heading appear nowhere.
C18_FlattenFormat ==
    doc.phase = "done" =>
        doc.text =
            Join("\n\n",
                 [b \in 1..Len(C18_Headings(doc.elems)) |->
                     C18_Block(doc.elems, C18_Headings(doc.elems)[b])])

\* H1 "Intro", P1, H2 "Details", P2 was flattened
C18_Witness ==
    /\ doc.phase = "done"
    /\ doc.elems = << [name |-> "h1", text |-> " Intro "],
                      [name |-> "p", text |-> "P1"],
                      [name |-> "h2", text |-> "Details"],
                      [name |-> "p", text |-> " P2 "] >>
    /\ doc.text = "# Intro\nP1\n\n## Details\nP2"

-----------------------------------------------------------------------------
(* C19 *)

\* the accepted links of a page that was fetched successfully
C19_LinksOf(u) ==
    IF u \in FetchedUrls /\ web[u] # Unknown THEN ResultOf(u).links ELSE {}

RECURSIVE C19_Within(_)
\* the URLs a chain of at most n such links leads to from the seed
C19_Within(n) ==
    IF n = 0 THEN {seed}
    ELSE C19_Within(n - 1)
            \cup UNION { C19_LinksOf(u) : u \in C19_Within(n - 1) }

\* C19: when a top-level crawl has returned, every URL within max_depth
\* accepted links of the seed has been fetched.
C19_Coverage == status = "returned" => C19_Within(max_depth) \subseteq FetchedUrls

-----------------------------------------------------------------------------
(* C20 *)

\* C20: every URL fetched at depth >= 1 is an accepted link of a page that
\* was fetched one level up earlier in the same crawl, whose text was not
\* empty and was written to its file; a call whose text is empty or null
\* has no links.
C20_LinksFromSaved ==
    /\ \A i \in 1..Len(fetchLog) :
          fetchLog[i].depth >= 1 =>
              \E j \in 1..(i - 1) :
                  /\ fetchLog[j].depth = fetchLog[i].depth - 1
                  /\ web[fetchLog[j].url].kind # "fail"
                  /\ fetchLog[i].url \in ResultOf(fetchLog[j].url).links
                  /\ ResultOf(fetchLog[j].url).text # ""
                  /\ [url |-> fetchLog[j].url,
                      text |-> ResultOf(fetchLog[j].url).text] \in saveLog
                  /\ fetchLog[j].url \in savedUrls
                  /\ FileOf[fetchLog[j].url] \in DOMAIN files
    /\ \A k \in 1..Len(stack) :
          (Extracted(stack[k]) /\ stack[k].text = "")
              => stack[k].links = {} /\ stack[k].todo = {}

\* a page found on a saved page was fetched and has persons and anchors but
\* no text
C20_Witness ==
    /\ Len(stack) >= 2 /\ Extracted(Top) /\ Top.text = ""
    /\ PageOf(Top.url).persons # {}
    /\ \E a \in 1..Len(PageOf(Top.url).anchors) :
          PageOf(Top.url).anchors[a].text = " Kim "
    /\ stack[2].url \in savedUrls
    /\ fetchLog[Len(fetchLog)].url = Top.url

====
